---- MODULE Spec2Model ----
(***************************************************************************)
(* Model of the Redis batch dispatcher and conflict-aware scheduler of     *)
(* src/yb/redisserver/redis_service.cc: RedisServiceImpl::Impl::Handle,    *)
(* BatchContext (Apply / CheckConflicts / ConflictFound / Commit) and      *)
(* Block (Launch / Done / SetNext).                                        *)
(*                                                                         *)
(* One behaviour is one Handle call on one inbound batch.  The RPC handler *)
(* thread runs the dispatch loop and Commit; every completion of an        *)
(* asynchronous flush (BlockCallback::Run) is a step of a callback thread  *)
(* and interleaves freely with the handler thread.  ClientSpec is the      *)
(* exception: its behaviours are concurrent and successive Handle calls    *)
(* going through SetUpYBClient, with the batches left out.                 *)
(***************************************************************************)
EXTENDS Integers, Sequences, FiniteSets, TLC

VARIABLES
  batch,                  \* call->client_batch(): sequence of commands (token vectors)
  redis_safe_batch,       \* FLAGS_redis_safe_batch
  yb_client_initialized,  \* Impl::yb_client_initialized_
  pc,                     \* position of the handler thread inside Handle
  idx,                    \* loop variable of the dispatch loop (0-based)
  ctx,                    \* the BatchContext of the call
  blocks,                 \* the Block objects, by identity 1..Len(blocks)
  log,                    \* every call made on the inbound call, a session or a Block, in order
  yb_mutex,               \* Impl::yb_mutex_: the handler thread that holds it, if any
  client_,                \* Impl::client_: identity of the YBClient it points to
  table_,                 \* Impl::table_: the client whose OpenTable filled it
  handlers                \* the RPC handler threads: position in Handle / SetUpYBClient

vars == <<batch, redis_safe_batch, yb_client_initialized, pc, idx, ctx, blocks, log,
          yb_mutex, client_, table_, handlers>>

(***************************************************************************)
(* Bounds of the model.                                                    *)
(***************************************************************************)
MaxBatch == 3

\* The longest alternating batch of AlternatingSpec.
MaxAlternating == 4

\* The longest command of DispatchSpec, in tokens.
MaxTokens == 5

\* The RPC handler threads of ClientSpec and the calls each of them handles.
MaxThreads == 2
MaxCalls == 2

\* Row keys a parser can put into an operation.
Keys == {"k1", "k2"}

(***************************************************************************)
(* Command table.                                                          *)
(***************************************************************************)
\* REDIS_COMMANDS: (name, arity, type).
REDIS_COMMANDS ==
  { [name |-> "get",      arity |-> 2,  type |-> "READ"],
    [name |-> "mget",     arity |-> -2, type |-> "READ"],
    [name |-> "hget",     arity |-> 3,  type |-> "READ"],
    [name |-> "hmget",    arity |-> -3, type |-> "READ"],
    [name |-> "hgetall",  arity |-> 2,  type |-> "READ"],
    [name |-> "smembers", arity |-> 2,  type |-> "READ"],
    [name |-> "strlen",   arity |-> 2,  type |-> "READ"],
    [name |-> "exists",   arity |-> 2,  type |-> "READ"],
    [name |-> "getrange", arity |-> 4,  type |-> "READ"],
    [name |-> "set",      arity |-> -3, type |-> "WRITE"],
    [name |-> "mset",     arity |-> -3, type |-> "WRITE"],
    [name |-> "hset",     arity |-> 4,  type |-> "WRITE"],
    [name |-> "hmset",    arity |-> -4, type |-> "WRITE"],
    [name |-> "hdel",     arity |-> -3, type |-> "WRITE"],
    [name |-> "sadd",     arity |-> -3, type |-> "WRITE"],
    [name |-> "srem",     arity |-> -3, type |-> "WRITE"],
    [name |-> "getset",   arity |-> 3,  type |-> "WRITE"],
    [name |-> "append",   arity |-> 3,  type |-> "WRITE"],
    [name |-> "del",      arity |-> 2,  type |-> "WRITE"],
    [name |-> "setrange", arity |-> 4,  type |-> "WRITE"],
    [name |-> "incr",     arity |-> 2,  type |-> "WRITE"],
    [name |-> "echo",     arity |-> 2,  type |-> "ECHO"] }

\* The "no handler" result of FetchHandler (nullptr).
NoCommandInfo == [name |-> "", arity |-> 0, type |-> "NONE"]

\* boost::to_lower on the command names that occur in the model's batches.
ToLower(s) ==
  CASE s = "GET"  -> "get"
    [] s = "SET"  -> "set"
    [] s = "ECHO" -> "echo"
    [] s = "Echo" -> "echo"
    [] s = "FOO"  -> "foo"
    [] OTHER      -> s

\* FetchHandler: the table entry of the lowercased first token, or nullptr.
FetchHandler(cmd_args) ==
  IF Len(cmd_args) < 1
    THEN NoCommandInfo
    ELSE LET cmd_name == ToLower(cmd_args[1])
             found == {info \in REDIS_COMMANDS : info.name = cmd_name}
         IN  IF found = {} THEN NoCommandInfo ELSE CHOOSE info \in found : TRUE

\* The commands a batch of the model is made of.
CommandPool ==
  { <<"get", "a">>,          \* READ, arity ok
    <<"set", "a", "v">>,     \* WRITE, arity ok
    <<"ECHO", "hello">>,     \* ECHO, arity ok
    <<"FOO", "a", "b">>,     \* not in the table
    <<"SET", "a">>,          \* too few arguments
    <<"get", "a", "b">> }    \* wrong number of arguments

RECURSIVE SeqsUpTo(_, _)
SeqsUpTo(S, n) ==
  IF n = 0 THEN {<<>>}
  ELSE LET shorter == SeqsUpTo(S, n - 1)
       IN  shorter \cup {Append(q, x) : q \in {r \in shorter : Len(r) = n - 1}, x \in S}

(***************************************************************************)
(* Statuses and responses.                                                 *)
(***************************************************************************)
\* A Status: its code and its message, the message as the list of its parts.
Status(code, message) == [code |-> code, message |-> message]

\* STATUS_FORMAT(RuntimeError, "$0: $1", cmd, error)
FormatFailure(cmd, error) == Status("RuntimeError", <<cmd, ": ", error>>)

\* The status Session::Apply returns when it rejects an operation.
ApplyFailed == Status("InvalidArgument", <<"session rejected the operation">>)

\* The aggregate statuses a flush callback can be run with.
FlushStatuses == {Status("OK", <<>>), Status("IOError", <<"flush failed">>)}

\* op.response(): the response object of the operation's own payload.
OpResponse(op) == [of_op |-> op.index, string_response |-> ""]

\* The RedisResponsePB EchoCommand builds.
EchoResponse(str) == [of_op |-> -1, string_response |-> str]

(***************************************************************************)
(* The log of calls.                                                       *)
(***************************************************************************)
Event(type, block, index, ok, data) ==
  [type |-> type, block |-> block, index |-> index, ok |-> ok, data |-> data]

\* RedisInboundCall::RespondSuccess / RespondFailure, called from `block` (0: the dispatcher).
RespondSuccess(block, index, response) == Event("RespondSuccess", block, index, TRUE, response)
RespondFailure(block, index, status) == Event("RespondFailure", block, index, FALSE, status)

(***************************************************************************)
(* Operation and Block.                                                    *)
(***************************************************************************)
\* The null shared_ptr<Block>.
NoBlock == 0

\* class Operation: batch index, kind flag, and the backend op (its row key).
Operation(index, read, operation) ==
  [index |-> index, read |-> read, operation |-> operation]

\* A freshly constructed Block: no operations, no successor, no flush issued.
NewBlock == [ops |-> <<>>, next |-> NoBlock, launches |-> 0, callbacks |-> 0]

\* The program state the scheduler and the Blocks work on.
Heap == [ctx |-> ctx, blocks |-> blocks, log |-> log]

\* Block::AddOperation as it would be if it put the operation in front.
AddOperationInFront(s, b, operation) ==
  [s EXCEPT !.blocks[b].ops = <<operation>> \o @]

\* Block::AddOperation
AddOperation(s, b, operation) ==
  [s EXCEPT !.blocks[b].ops = Append(@, operation)]

\* Block::SetNext: installs the successor; the previous one is the return value,
\* recorded in the log.
SetNext(s, b, next) ==
  [s EXCEPT !.blocks[b].next = next,
            !.log = Append(@, Event("SetNext", b, -1, s.blocks[b].next = NoBlock,
                                    [next |-> next, old |-> s.blocks[b].next]))]

\* The loop of Block::Launch over ops_: every operation is applied to the
\* session, in order; a failed apply is answered at once and the loop goes on.
RECURSIVE ApplyOps(_, _, _, _)
ApplyOps(b, read, ops, applyOk) ==
  IF ops = <<>> THEN <<>>
  ELSE LET op == Head(ops)
           ok == applyOk[op.index]
       IN  <<Event("SessionApply", b, op.index, ok, read)>>
           \o (IF ok THEN <<>> ELSE <<RespondFailure(b, op.index, ApplyFailed)>>)
           \o ApplyOps(b, read, Tail(ops), applyOk)

\* Block::Launch as it would be if it launched the successor without waiting
\* for the flush.
RECURSIVE LaunchEager(_, _, _, _)
LaunchEager(s, b, applyOk, by) ==
  LET blk == s.blocks[b]
      read == blk.ops[1].read
      has_ok == \E i \in 1..Len(blk.ops) : applyOk[blk.ops[i].index]
      s1 == [s EXCEPT !.blocks[b].launches = @ + 1,
                      !.log = Append(@, Event("Launch", b, -1, TRUE, by))
                              \o ApplyOps(b, read, blk.ops, applyOk)]
      s2 == IF has_ok
              THEN [s1 EXCEPT !.blocks[b].callbacks = @ + 1,
                              !.log = Append(@, Event("FlushAsync", b, -1, TRUE, read))]
              ELSE s1
  IN  IF blk.next # NoBlock
        THEN LaunchEager(s2, blk.next, applyOk, b)
        ELSE s2

\* Block::Launch as it would be if it flushed without looking at has_ok.
LaunchAlwaysFlushes(s, b, applyOk, by) ==
  LET blk == s.blocks[b]
      read == blk.ops[1].read
  IN  [s EXCEPT !.blocks[b].launches = @ + 1,
                !.blocks[b].callbacks = @ + 1,
                !.log = Append(@, Event("Launch", b, -1, TRUE, by))
                        \o ApplyOps(b, read, blk.ops, applyOk)
                        \o <<Event("FlushAsync", b, -1, TRUE, read)>>]

\* Block::Launch, called by `by` (NoBlock: BatchContext::Commit, else the
\* predecessor Block).  applyOk[i] is the outcome of Session::Apply for the
\* operation of batch index i.
RECURSIVE Launch(_, _, _, _)
Launch(s, b, applyOk, by) ==
  LET blk == s.blocks[b]
      read == blk.ops[1].read
      has_ok == \E i \in 1..Len(blk.ops) : applyOk[blk.ops[i].index]
      s1 == [s EXCEPT !.blocks[b].launches = @ + 1,
                      !.log = Append(@, Event("Launch", b, -1, TRUE, by))
                              \o ApplyOps(b, read, blk.ops, applyOk)]
  IN  IF has_ok
        THEN [s1 EXCEPT !.blocks[b].callbacks = @ + 1,
                        !.log = Append(@, Event("FlushAsync", b, -1, TRUE, read))]
        ELSE IF blk.next # NoBlock
          THEN Launch(s1, blk.next, applyOk, b)
          ELSE s1

\* Block::Done as it would be if it forgot to launch the successor.
DoneDropsSuccessor(s, b, status, applyOk) ==
  LET blk == s.blocks[b]
      responses ==
        IF status.code = "OK"
          THEN [i \in 1..Len(blk.ops) |->
                  RespondSuccess(b, blk.ops[i].index, OpResponse(blk.ops[i]))]
          ELSE [i \in 1..Len(blk.ops) |->
                  RespondFailure(b, blk.ops[i].index, status)]
  IN  [s EXCEPT !.blocks[b].callbacks = @ - 1,
                !.log = Append(@, Event("Done", b, -1, status.code = "OK", status))
                        \o responses]

\* Block::Done as it would be if it answered with the operations' responses
\* whatever the flush status.
DoneIgnoresStatus(s, b, status, applyOk) ==
  LET blk == s.blocks[b]
      responses ==
        [i \in 1..Len(blk.ops) |->
           RespondSuccess(b, blk.ops[i].index, OpResponse(blk.ops[i]))]
      s1 == [s EXCEPT !.blocks[b].callbacks = @ - 1,
                      !.log = Append(@, Event("Done", b, -1, status.code = "OK", status))
                              \o responses]
  IN  IF blk.next # NoBlock
        THEN Launch(s1, blk.next, applyOk, b)
        ELSE s1

\* Block::Done, run by the flush callback with the aggregate status.
Done(s, b, status, applyOk) ==
  LET blk == s.blocks[b]
      responses ==
        IF status.code = "OK"
          THEN [i \in 1..Len(blk.ops) |->
                  RespondSuccess(b, blk.ops[i].index, OpResponse(blk.ops[i]))]
          ELSE [i \in 1..Len(blk.ops) |->
                  RespondFailure(b, blk.ops[i].index, status)]
      s1 == [s EXCEPT !.blocks[b].callbacks = @ - 1,
                      !.log = Append(@, Event("Done", b, -1, status.code = "OK", status))
                              \o responses]
  IN  IF blk.next # NoBlock
        THEN Launch(s1, blk.next, applyOk, b)
        ELSE s1

(***************************************************************************)
(* BatchContext.                                                           *)
(***************************************************************************)
\* boost::logic::tribool values of last_conflict_was_read_.
Tribool(read) == IF read THEN "true" ELSE "false"

\* struct BlockData (the unused count member is left out).
EmptyBlockData == [used_keys |-> {}, block |-> NoBlock]

\* The BatchContext after construction.
NewBatchContext ==
  [read_data |-> EmptyBlockData,
   write_data |-> EmptyBlockData,
   flush_head |-> NoBlock,
   last_conflict_was_read |-> "indeterminate"]

\* BatchContext::data(read)
data(c, read) == IF read THEN c.read_data ELSE c.write_data

\* Assignment through the reference data(read) returns.
SetData(c, read, d) ==
  IF read THEN [c EXCEPT !.read_data = d] ELSE [c EXCEPT !.write_data = d]

\* BatchContext::ConflictFound as it would be if the first conflict chained the
\* Blocks without recording the chain head.
ConflictFoundWithoutHead(s, read) ==
  LET d == data(s.ctx, read)
      opposite_data == data(s.ctx, ~read)
      s0 == [s EXCEPT !.log = Append(@, Event("ConflictFound", d.block, -1, read,
                                              s.ctx.last_conflict_was_read))]
      s1 == IF s.ctx.last_conflict_was_read = "indeterminate"
              THEN SetNext(s0, opposite_data.block, d.block)
              ELSE [s0 EXCEPT !.ctx = SetData(@, read, EmptyBlockData)]
  IN  [s1 EXCEPT !.ctx.last_conflict_was_read = Tribool(read)]

\* BatchContext::ConflictFound as it would be if the first conflict, too,
\* dropped the open Block and the used keys of the arriving kind.
ConflictFoundAlwaysResets(s, read) ==
  LET d == data(s.ctx, read)
      opposite_data == data(s.ctx, ~read)
      s0 == [s EXCEPT !.log = Append(@, Event("ConflictFound", d.block, -1, read,
                                              s.ctx.last_conflict_was_read))]
      s1 == IF s.ctx.last_conflict_was_read = "indeterminate"
              THEN [s0 EXCEPT !.ctx.flush_head = opposite_data.block]
              ELSE s0
      s2 == [s1 EXCEPT !.ctx = SetData(@, read, EmptyBlockData)]
  IN  [s2 EXCEPT !.ctx.last_conflict_was_read = Tribool(read)]

\* BatchContext::ConflictFound as it would be if every conflict made the
\* opposite kind's Block the chain head.
ConflictFoundMovesHead(s, read) ==
  LET d == data(s.ctx, read)
      opposite_data == data(s.ctx, ~read)
      s0 == [s EXCEPT !.log = Append(@, Event("ConflictFound", d.block, -1, read,
                                              s.ctx.last_conflict_was_read)),
                      !.ctx.flush_head = opposite_data.block]
      s1 == IF s.ctx.last_conflict_was_read = "indeterminate"
              THEN SetNext(s0, opposite_data.block, d.block)
              ELSE [s0 EXCEPT !.ctx = SetData(@, read, EmptyBlockData)]
  IN  [s1 EXCEPT !.ctx.last_conflict_was_read = Tribool(read)]

\* BatchContext::ConflictFound as it would be if a later conflict left the
\* open Block and the used keys of the arriving kind in place.
ConflictFoundKeepsBlock(s, read) ==
  LET d == data(s.ctx, read)
      opposite_data == data(s.ctx, ~read)
      s0 == [s EXCEPT !.log = Append(@, Event("ConflictFound", d.block, -1, read,
                                              s.ctx.last_conflict_was_read))]
      s1 == IF s.ctx.last_conflict_was_read = "indeterminate"
              THEN SetNext([s0 EXCEPT !.ctx.flush_head = opposite_data.block],
                           opposite_data.block, d.block)
              ELSE s0
  IN  [s1 EXCEPT !.ctx.last_conflict_was_read = Tribool(read)]

\* BatchContext::ConflictFound
ConflictFound(s, read) ==
  LET d == data(s.ctx, read)
      opposite_data == data(s.ctx, ~read)
      s0 == [s EXCEPT !.log = Append(@, Event("ConflictFound", d.block, -1, read,
                                              s.ctx.last_conflict_was_read))]
      s1 == IF s.ctx.last_conflict_was_read = "indeterminate"
              THEN SetNext([s0 EXCEPT !.ctx.flush_head = opposite_data.block],
                           opposite_data.block, d.block)
              ELSE [s0 EXCEPT !.ctx = SetData(@, read, EmptyBlockData)]
  IN  [s1 EXCEPT !.ctx.last_conflict_was_read = Tribool(read)]

\* BatchContext::CheckConflicts as it would be without the early return for
\* the kind of the last conflict.
CheckConflictsOfAnyKind(s, read, keys) ==
  LET opposite == data(s.ctx, ~read)
      conflict == \E i \in 1..Len(keys) : keys[i] \in opposite.used_keys
  IN  IF conflict THEN ConflictFound(s, read) ELSE s

\* BatchContext::CheckConflicts
CheckConflicts(s, read, keys) ==
  IF s.ctx.last_conflict_was_read = Tribool(read)
    THEN s
    ELSE LET opposite == data(s.ctx, ~read)
             conflict == \E i \in 1..Len(keys) : keys[i] \in opposite.used_keys
         IN  IF conflict THEN ConflictFound(s, read) ELSE s

\* BatchContext::RememberKeys as it would be if it replaced the used keys by
\* the keys of the operation.
RememberKeysReplacing(s, read, keys) ==
  LET dest == data(s.ctx, read)
  IN  [s EXCEPT !.ctx = SetData(@, read,
         [dest EXCEPT !.used_keys = {keys[i] : i \in 1..Len(keys)}])]

\* BatchContext::RememberKeys
RememberKeys(s, read, keys) ==
  LET dest == data(s.ctx, read)
  IN  [s EXCEPT !.ctx = SetData(@, read,
         [dest EXCEPT !.used_keys = @ \cup {keys[i] : i \in 1..Len(keys)}])]

\* BatchContext::Apply as it would be if, once there is a chain, it added the
\* operation to the chain head instead of the Block of the operation's kind.
ApplyIntoChainHead(s, index, read, op, keys) ==
  LET operation == Operation(index, read, op)
      s1 == CheckConflicts(s, read, keys)
      d == data(s1.ctx, read)
      nb == Len(s1.blocks) + 1
      s2 == IF d.block = NoBlock
              THEN LET s21 == [s1 EXCEPT !.blocks = Append(@, NewBlock),
                                         !.ctx = SetData(@, read, [d EXCEPT !.block = nb])]
                   IN  IF Tribool(read) = s21.ctx.last_conflict_was_read
                         THEN SetNext(s21, data(s21.ctx, ~read).block, nb)
                         ELSE s21
              ELSE s1
      b == IF s2.ctx.flush_head # NoBlock
             THEN s2.ctx.flush_head
             ELSE data(s2.ctx, read).block
      s3 == AddOperation(s2, b, operation)
      s4 == [s3 EXCEPT !.log = Append(@, Event("Apply", b, index, read, keys))]
  IN  RememberKeys(s4, read, keys)

\* BatchContext::Apply
Apply(s, index, read, op, keys) ==
  LET operation == Operation(index, read, op)
      s1 == CheckConflicts(s, read, keys)
      d == data(s1.ctx, read)
      nb == Len(s1.blocks) + 1
      s2 == IF d.block = NoBlock
              THEN LET s21 == [s1 EXCEPT !.blocks = Append(@, NewBlock),
                                         !.ctx = SetData(@, read, [d EXCEPT !.block = nb])]
                   IN  IF Tribool(read) = s21.ctx.last_conflict_was_read
                         THEN SetNext(s21, data(s21.ctx, ~read).block, nb)
                         ELSE s21
              ELSE s1
      b == data(s2.ctx, read).block
      s3 == AddOperation(s2, b, operation)
      s4 == [s3 EXCEPT !.log = Append(@, Event("Apply", b, index, read, keys))]
  IN  RememberKeys(s4, read, keys)

(***************************************************************************)
(* Dispatcher: RedisServiceImpl::Impl.                                     *)
(***************************************************************************)
\* ParseEcho as it would be with the wrong token index.
ParseEchoFirstToken(command) == command[1]

\* ParseEcho: the second token of the command.
ParseEcho(command) == command[2]

\* RespondWithFailure: the failure is prefixed by the command's first token.
RespondWithFailure(s, index, error) ==
  LET command == batch[index + 1]
      cmd == command[1]
  IN  [s EXCEPT !.log = Append(@, RespondFailure(NoBlock, index, FormatFailure(cmd, error)))]

\* EchoCommand
EchoCommand(s, info, index) ==
  LET command == batch[index + 1]
      echo_response == EchoResponse(ParseEcho(command))
  IN  [s EXCEPT !.log = Append(@, RespondSuccess(NoBlock, index, echo_response))]

\* What a read/write parser and the key extraction can yield for a command: the
\* parser's status, the row key it put into the operation, and the status of
\* op->row().GetBinary(kRedisKeyColumnName, &key).
ParseOutcomes ==
  { [parse |-> "OK", key |-> k, get_binary |-> "OK"] : k \in Keys }
  \cup { [parse |-> "InvalidArgument", key |-> "", get_binary |-> "OK"],
         [parse |-> "OK", key |-> "", get_binary |-> "NotFound"] }

\* Command<Op> as it would be if it extracted the key whatever the value of
\* FLAGS_redis_safe_batch.
CommandIgnoringFlag(s, info, index, read, outcome) ==
  LET extract == outcome.parse = "OK"
      st == IF extract THEN outcome.get_binary ELSE outcome.parse
      keys == IF extract THEN <<outcome.key>> ELSE <<>>
      s1 == [s EXCEPT !.log = Append(@, Event("Parse", NoBlock, index, st = "OK", st))]
  IN  IF st # "OK"
        THEN RespondWithFailure(s1, index, st)
        ELSE Apply(s1, index, read, outcome.key, keys)

\* Command<Op> as it would be if it did not return after reporting a failure.
CommandFallsThrough(s, info, index, read, outcome) ==
  LET extract == outcome.parse = "OK" /\ redis_safe_batch
      st == IF extract THEN outcome.get_binary ELSE outcome.parse
      keys == IF extract THEN <<outcome.key>> ELSE <<>>
      s1 == [s EXCEPT !.log = Append(@, Event("Parse", NoBlock, index, st = "OK", st))]
      s2 == IF st # "OK" THEN RespondWithFailure(s1, index, st) ELSE s1
  IN  Apply(s2, index, read, outcome.key, keys)

\* Command<Op>: parse (the parser's final status is recorded in the log),
\* extract the key when safe batching is on, hand the operation to the
\* BatchContext.
Command(s, info, index, read, outcome) ==
  LET extract == outcome.parse = "OK" /\ redis_safe_batch
      st == IF extract THEN outcome.get_binary ELSE outcome.parse
      keys == IF extract THEN <<outcome.key>> ELSE <<>>
      s1 == [s EXCEPT !.log = Append(@, Event("Parse", NoBlock, index, st = "OK", st))]
  IN  IF st # "OK"
        THEN RespondWithFailure(s1, index, st)
        ELSE Apply(s1, index, read, outcome.key, keys)

\* One iteration of the dispatch loop of Handle as it would be without the
\* check of a negative arity.
HandleCommandWithoutMinimum(s, index, outcome) ==
  LET c == batch[index + 1]
      cmd_info == FetchHandler(c)
  IN  IF cmd_info = NoCommandInfo
        THEN RespondWithFailure(s, index, "Unsupported call.")
      ELSE IF cmd_info.arity > 0 /\ Len(c) # cmd_info.arity
        THEN RespondWithFailure(s, index, "Wrong number of arguments.")
      ELSE IF cmd_info.type = "ECHO"
        THEN EchoCommand(s, cmd_info, index)
        ELSE Command(s, cmd_info, index, cmd_info.type = "READ", outcome)

\* One iteration of the dispatch loop of Handle.
HandleCommand(s, index, outcome) ==
  LET c == batch[index + 1]
      cmd_info == FetchHandler(c)
  IN  IF cmd_info = NoCommandInfo
        THEN RespondWithFailure(s, index, "Unsupported call.")
      ELSE IF cmd_info.arity < 0 /\ Len(c) < -1 * cmd_info.arity
        THEN RespondWithFailure(s, index, "Too few arguments.")
      ELSE IF cmd_info.arity > 0 /\ Len(c) # cmd_info.arity
        THEN RespondWithFailure(s, index, "Wrong number of arguments.")
      ELSE IF cmd_info.type = "ECHO"
        THEN EchoCommand(s, cmd_info, index)
        ELSE Command(s, cmd_info, index, cmd_info.type = "READ", outcome)

\* The statuses SetUpYBClient can return: OK, the failure of Build
\* ("NetworkError"), the failure of OpenTable ("NotFound").
SetUpStatuses == {"OK", "NetworkError", "NotFound"}

\* client_ and table_ after a SetUpYBClient that returned `status`: Build
\* succeeded unless the status is its failure, OpenTable only with OK.
ClientAfter(status) == IF status = "NetworkError" THEN client_ ELSE client_ + 1
TableAfter(status) == IF status = "OK" THEN client_ + 1 ELSE table_

\* The failure of every index when the client cannot be set up.
RECURSIVE FailAll(_, _, _)
FailAll(s, index, message) ==
  IF index = Len(batch) THEN s
  ELSE FailAll(RespondWithFailure(s, index, message), index + 1, message)

\* The batch indexes of the operations a Launch of Block b can apply: those of
\* b and of the Blocks that follow it.
RECURSIVE ChainIndexes(_)
ChainIndexes(b) ==
  IF b = NoBlock THEN {}
  ELSE {blocks[b].ops[i].index : i \in 1..Len(blocks[b].ops)}
       \cup ChainIndexes(blocks[b].next)

\* Outcomes of Session::Apply for the operations a Launch of Block b can reach:
\* any subset of them is rejected by the session.
ApplyOutcomes(b) ==
  { [i \in 0..(Len(batch) - 1) |-> i \notin rejected] :
      rejected \in SUBSET ChainIndexes(b) }

\* The parse outcomes that matter for a command: those of a read or write
\* command that passes lookup and arity check.
OutcomesFor(c) ==
  LET info == FetchHandler(c)
      parsed == /\ info.type \in {"READ", "WRITE"}
                /\ ~(info.arity < 0 /\ Len(c) < -1 * info.arity)
                /\ ~(info.arity > 0 /\ Len(c) # info.arity)
  IN  IF parsed THEN ParseOutcomes
      ELSE {[parse |-> "OK", key |-> "", get_binary |-> "OK"]}

(***************************************************************************)
(* Shared client state of RedisServiceImpl::Impl.                          *)
(***************************************************************************)
Threads == 1..MaxThreads

NoThread == 0

\* A null client_ / table_.
NoClient == 0

\* A handler thread outside Handle: the calls it has taken and the client its
\* last BatchContext was constructed with.
IdleHandler == [pc |-> "idle", calls |-> 0, client |-> NoClient, table |-> NoClient]

\* The Impl after construction: no client, no table, mutex free.
ClientInit ==
  /\ yb_mutex = NoThread
  /\ client_ = NoClient
  /\ table_ = NoClient
  /\ handlers = [t \in Threads |-> IdleHandler]

(***************************************************************************)
(* Actions.                                                                *)
(***************************************************************************)
Store(s) ==
  /\ ctx' = s.ctx
  /\ blocks' = s.blocks
  /\ log' = s.log

\* The call of SetUpYBClient by Handle, recorded with the status it returned.
SetUpYBClient(s, status) ==
  [s EXCEPT !.log = Append(@, Event("SetUpYBClient", NoBlock, -1, status = "OK", status))]

\* Handle, up to the construction of the BatchContext, as it would be if it
\* did not return after reporting the failed set-up.
HandleStartWithoutReturn ==
  /\ pc = "start"
  /\ IF yb_client_initialized
       THEN /\ pc' = "loop"
            /\ UNCHANGED <<yb_client_initialized, client_, table_, ctx, blocks, log>>
       ELSE \E status \in SetUpStatuses :
              /\ client_' = ClientAfter(status)
              /\ table_' = TableAfter(status)
              /\ IF status = "OK"
                   THEN /\ yb_client_initialized' = TRUE
                        /\ pc' = "loop"
                        /\ Store(SetUpYBClient(Heap, status))
                   ELSE /\ yb_client_initialized' = FALSE
                        /\ pc' = "loop"
                        /\ Store(FailAll(SetUpYBClient(Heap, status), 0,
                                         "Could not open .redis table. " \o status))
  /\ UNCHANGED <<yb_mutex, handlers, batch, redis_safe_batch, idx>>

\* Handle, up to the construction of the BatchContext.
HandleStart ==
  /\ pc = "start"
  /\ IF yb_client_initialized
       THEN /\ pc' = "loop"
            /\ UNCHANGED <<yb_client_initialized, client_, table_, ctx, blocks, log>>
       ELSE \E status \in SetUpStatuses :
              /\ client_' = ClientAfter(status)
              /\ table_' = TableAfter(status)
              /\ IF status = "OK"
                   THEN /\ yb_client_initialized' = TRUE
                        /\ pc' = "loop"
                        /\ Store(SetUpYBClient(Heap, status))
                   ELSE /\ yb_client_initialized' = FALSE
                        /\ pc' = "returned"
                        /\ Store(FailAll(SetUpYBClient(Heap, status), 0,
                                         "Could not open .redis table. " \o status))
  /\ UNCHANGED <<yb_mutex, handlers, batch, redis_safe_batch, idx>>

\* Handle: one iteration of the loop over the batch.
HandleLoop ==
  /\ pc = "loop"
  /\ idx # Len(batch)
  /\ \E outcome \in OutcomesFor(batch[idx + 1]) : Store(HandleCommand(Heap, idx, outcome))
  /\ idx' = idx + 1
  /\ UNCHANGED <<yb_mutex, client_, table_, handlers, batch, redis_safe_batch, yb_client_initialized, pc>>

\* BatchContext::Commit up to and including its first Launch, as it would be
\* if it launched the Blocks of the read and write slots whether or not there
\* is a chain.
CommitFromSlots ==
  /\ pc = "loop"
  /\ idx = Len(batch)
  /\ IF ctx.read_data.block # NoBlock
       THEN \E applyOk \in ApplyOutcomes(ctx.read_data.block) :
              Store(Launch(Heap, ctx.read_data.block, applyOk, NoBlock))
       ELSE UNCHANGED <<ctx, blocks, log>>
  /\ pc' = "commit_write"
  /\ UNCHANGED <<yb_mutex, client_, table_, handlers, batch, redis_safe_batch, yb_client_initialized, idx>>

\* BatchContext::Commit up to and including its first Launch.
Commit ==
  /\ pc = "loop"
  /\ idx = Len(batch)
  /\ IF ctx.flush_head # NoBlock
       THEN /\ \E applyOk \in ApplyOutcomes(ctx.flush_head) :
                 Store(Launch(Heap, ctx.flush_head, applyOk, NoBlock))
            /\ pc' = "returned"
       ELSE /\ IF ctx.read_data.block # NoBlock
                 THEN \E applyOk \in ApplyOutcomes(ctx.read_data.block) :
                        Store(Launch(Heap, ctx.read_data.block, applyOk, NoBlock))
                 ELSE UNCHANGED <<ctx, blocks, log>>
            /\ pc' = "commit_write"
  /\ UNCHANGED <<yb_mutex, client_, table_, handlers, batch, redis_safe_batch, yb_client_initialized, idx>>

\* The end of BatchContext::Commit as it would be if the write Block were not
\* launched when there is no chain.
CommitWriteOmitted ==
  /\ pc = "commit_write"
  /\ pc' = "returned"
  /\ UNCHANGED <<yb_mutex, client_, table_, handlers, batch, redis_safe_batch, yb_client_initialized, idx, ctx, blocks, log>>

\* BatchContext::Commit, the launch of the write Block, and the return of Handle.
CommitWrite ==
  /\ pc = "commit_write"
  /\ IF ctx.write_data.block # NoBlock
       THEN \E applyOk \in ApplyOutcomes(ctx.write_data.block) :
              Store(Launch(Heap, ctx.write_data.block, applyOk, NoBlock))
       ELSE UNCHANGED <<ctx, blocks, log>>
  /\ pc' = "returned"
  /\ UNCHANGED <<yb_mutex, client_, table_, handlers, batch, redis_safe_batch, yb_client_initialized, idx>>

\* BlockCallback::Run on a callback thread: the flush of Block b completes.
BlockCallbackRun(b) ==
  /\ blocks[b].callbacks > 0
  /\ \E status \in FlushStatuses, applyOk \in ApplyOutcomes(blocks[b].next) :
       Store(Done(Heap, b, status, applyOk))
  /\ UNCHANGED <<yb_mutex, client_, table_, handlers, batch, redis_safe_batch, yb_client_initialized, pc, idx>>

Init ==
  /\ batch \in SeqsUpTo(CommandPool, MaxBatch)
  /\ redis_safe_batch \in BOOLEAN
  /\ yb_client_initialized = FALSE
  /\ pc = "start"
  /\ idx = 0
  /\ ctx = NewBatchContext
  /\ blocks = <<>>
  /\ log = <<>>
  /\ ClientInit

Next ==
  \/ HandleStart
  \/ HandleLoop
  \/ Commit
  \/ CommitWrite
  \/ \E b \in 1..Len(blocks) : BlockCallbackRun(b)

Spec == Init /\ [][Next]_vars

\* The batch of n commands that alternate between a read and a write command,
\* starting with a read command if `read`.
RECURSIVE Alternating(_, _)
Alternating(n, read) ==
  IF n = 0 THEN <<>>
  ELSE <<IF read THEN <<"get", "a">> ELSE <<"set", "a", "v">>>>
       \o Alternating(n - 1, ~read)

\* A call whose batch alternates between read and write commands.
AlternatingInit ==
  /\ batch \in {Alternating(n, read) : n \in 0..MaxAlternating, read \in BOOLEAN}
  /\ redis_safe_batch \in BOOLEAN
  /\ yb_client_initialized = FALSE
  /\ pc = "start"
  /\ idx = 0
  /\ ctx = NewBatchContext
  /\ blocks = <<>>
  /\ log = <<>>
  /\ ClientInit

AlternatingSpec == AlternatingInit /\ [][Next]_vars

\* First tokens of the commands of DispatchSpec: every name of the table,
\* names in other cases, and a name that is not in the table.
DispatchNames ==
  {info.name : info \in REDIS_COMMANDS} \cup {"GET", "SET", "ECHO", "Echo", "FOO"}

\* The command made of a name and n - 1 arguments.
CommandOf(name, n) == <<name>> \o [k \in 1..(n - 1) |-> "a"]

\* A call with a batch of one command of 1..MaxTokens tokens.
DispatchInit ==
  /\ batch \in {<<CommandOf(name, n)>> : name \in DispatchNames, n \in 1..MaxTokens}
  /\ redis_safe_batch \in BOOLEAN
  /\ yb_client_initialized = FALSE
  /\ pc = "start"
  /\ idx = 0
  /\ ctx = NewBatchContext
  /\ blocks = <<>>
  /\ log = <<>>
  /\ ClientInit

DispatchSpec == DispatchInit /\ [][Next]_vars

(***************************************************************************)
(* Concurrent Handle calls and the lazy set-up of the client.  The batch   *)
(* of each call is left out: a call either fails every index or builds its *)
(* BatchContext from client_.                                              *)
(***************************************************************************)
callVars == <<batch, redis_safe_batch, pc, idx, ctx, blocks, log>>

\* Handle: a handler thread takes a call and loads yb_client_initialized_.
HandleLoadInitialized(t) ==
  /\ handlers[t].pc = "idle"
  /\ handlers[t].calls < MaxCalls
  /\ handlers' = [handlers EXCEPT ![t].calls = @ + 1,
                                  ![t].pc = IF yb_client_initialized
                                              THEN "context" ELSE "set_up"]
  /\ UNCHANGED <<yb_client_initialized, yb_mutex, client_, table_>>
  /\ UNCHANGED callVars

\* SetUpYBClient: std::lock_guard takes yb_mutex_.
SetUpYBClientLock(t) ==
  /\ handlers[t].pc = "set_up"
  /\ yb_mutex = NoThread
  /\ yb_mutex' = t
  /\ handlers' = [handlers EXCEPT ![t].pc = "locked"]
  /\ UNCHANGED <<yb_client_initialized, client_, table_>>
  /\ UNCHANGED callVars

\* SetUpYBClient: under the mutex, load the flag again and, if it is still
\* false, Build a client into client_ (a failed Build leaves client_ as it
\* was and returns, which releases the mutex).
SetUpYBClientBuild(t) ==
  /\ handlers[t].pc = "locked"
  /\ IF yb_client_initialized
       THEN /\ yb_mutex' = NoThread
            /\ handlers' = [handlers EXCEPT ![t].pc = "context"]
            /\ UNCHANGED client_
       ELSE \E built \in BOOLEAN :
              IF built
                THEN /\ client_' = client_ + 1
                     /\ handlers' = [handlers EXCEPT ![t].pc = "built"]
                     /\ UNCHANGED yb_mutex
                ELSE /\ yb_mutex' = NoThread
                     /\ handlers' = [handlers EXCEPT ![t].pc = "failed"]
                     /\ UNCHANGED client_
  /\ UNCHANGED <<yb_client_initialized, table_>>
  /\ UNCHANGED callVars

\* SetUpYBClient: client_->OpenTable(table_name, &table_); a failure returns
\* and releases the mutex.
SetUpYBClientOpenTable(t) ==
  /\ handlers[t].pc = "built"
  /\ \E opened \in BOOLEAN :
       IF opened
         THEN /\ table_' = client_
              /\ handlers' = [handlers EXCEPT ![t].pc = "opened"]
              /\ UNCHANGED yb_mutex
         ELSE /\ yb_mutex' = NoThread
              /\ handlers' = [handlers EXCEPT ![t].pc = "failed"]
              /\ UNCHANGED table_
  /\ UNCHANGED <<yb_client_initialized, client_>>
  /\ UNCHANGED callVars

\* SetUpYBClient: yb_client_initialized_.store(true) and the return of OK.
SetUpYBClientStore(t) ==
  /\ handlers[t].pc = "opened"
  /\ yb_client_initialized' = TRUE
  /\ yb_mutex' = NoThread
  /\ handlers' = [handlers EXCEPT ![t].pc = "context"]
  /\ UNCHANGED <<client_, table_>>
  /\ UNCHANGED callVars

\* Handle: the set-up failed; every index is failed and the call returns.
HandleSetUpFailed(t) ==
  /\ handlers[t].pc = "failed"
  /\ handlers' = [handlers EXCEPT ![t].pc = "idle"]
  /\ UNCHANGED <<yb_client_initialized, yb_mutex, client_, table_>>
  /\ UNCHANGED callVars

\* Handle: the BatchContext is constructed from client_ (its sessions use
\* table_) and the batch is processed.
HandleBatchContext(t) ==
  /\ handlers[t].pc = "context"
  /\ handlers' = [handlers EXCEPT ![t].pc = "idle",
                                  ![t].client = client_,
                                  ![t].table = table_]
  /\ UNCHANGED <<yb_client_initialized, yb_mutex, client_, table_>>
  /\ UNCHANGED callVars

\* A fresh Impl; the calls' batches play no part.
ClientSpecInit ==
  /\ batch = <<>>
  /\ redis_safe_batch = TRUE
  /\ yb_client_initialized = FALSE
  /\ pc = "start"
  /\ idx = 0
  /\ ctx = NewBatchContext
  /\ blocks = <<>>
  /\ log = <<>>
  /\ ClientInit

ClientNext ==
  \E t \in Threads :
    \/ HandleLoadInitialized(t)
    \/ SetUpYBClientLock(t)
    \/ SetUpYBClientBuild(t)
    \/ SetUpYBClientOpenTable(t)
    \/ SetUpYBClientStore(t)
    \/ HandleSetUpFailed(t)
    \/ HandleBatchContext(t)

ClientSpec == ClientSpecInit /\ [][ClientNext]_vars

\* The handler thread keeps running and every issued flush completes.
FairSpec ==
  /\ Spec
  /\ WF_vars(HandleStart \/ HandleLoop \/ Commit \/ CommitWrite)
  /\ \A b \in 1..MaxBatch : WF_vars(b \in 1..Len(blocks) /\ BlockCallbackRun(b))

(***************************************************************************)
(* Reading the log.                                                        *)
(***************************************************************************)
Indexes == 0..(Len(batch) - 1)

IsResponse(e) == e.type \in {"RespondSuccess", "RespondFailure"}

\* Positions of the log holding an event of the given type.
Positions(type) == {p \in DOMAIN log : log[p].type = type}

\* Positions of the responses given to batch index i.
ResponsesTo(i) == {p \in DOMAIN log : IsResponse(log[p]) /\ log[p].index = i}

\* Positions where Block b is launched / its flush callback runs.
LaunchesOf(b) == {p \in Positions("Launch") : log[p].block = b}
DonesOf(b) == {p \in Positions("Done") : log[p].block = b}

\* Positions where the operation of batch index i is applied to a session.
SessionAppliesOf(i) == {p \in Positions("SessionApply") : log[p].index = i}

\* The Block that holds the operation of batch index i, if any.
BlocksHolding(i) ==
  {b \in DOMAIN blocks : \E k \in DOMAIN blocks[b].ops : blocks[b].ops[k].index = i}

(***************************************************************************)
(* C1                                                                      *)
(***************************************************************************)
\* C1: no batch index ever receives more than one response (respond_success
\* or respond_failure) during the call; in particular an operation whose
\* Apply to the session failed in Block::Launch gets no second response from
\* the later flush callback of its Block.
NoIndexRespondedTwice ==
  \A i \in Indexes : Cardinality(ResponsesTo(i)) <= 1

(***************************************************************************)
(* C2                                                                      *)
(***************************************************************************)
\* C2: when every issued flush eventually runs its completion callback and
\* the handler thread runs Handle to its end, every index of the batch
\* eventually has a response.
EveryIndexEventuallyAnswered ==
  <>(\A i \in Indexes : ResponsesTo(i) # {})

\* A full batch in which a failed command, a synchronous answer and the
\* operations of a chain of two Blocks have all been answered.
AllAnsweredWitness ==
  /\ pc = "returned"
  /\ Len(batch) = MaxBatch
  /\ \A i \in Indexes : ResponsesTo(i) # {}
  /\ \E p \in Positions("RespondFailure") : log[p].block = NoBlock
  /\ \E b \in DOMAIN blocks :
       /\ blocks[b].next # NoBlock
       /\ DonesOf(b) # {}
       /\ DonesOf(blocks[b].next) # {}

(***************************************************************************)
(* C3                                                                      *)
(***************************************************************************)
\* The keys BatchContext::Apply was given for batch index i.
KeysGiven(i) ==
  UNION { {log[p].data[k] : k \in DOMAIN log[p].data} :
            p \in {q \in Positions("Apply") : log[q].index = i} }

\* Operations i < j of opposite kinds that were given a common key.
Conflicting(i, j) ==
  /\ i < j
  /\ \E p, q \in Positions("Apply") :
       /\ log[p].index = i
       /\ log[q].index = j
       /\ log[p].ok # log[q].ok
  /\ KeysGiven(i) \cap KeysGiven(j) # {}

\* C3: with redis_safe_batch on, for operations i < j of opposite kinds that
\* share a key, a response for index i is emitted before the Block holding j
\* is launched, hence before operation j is applied to a backend session.
ConflictingOpsAreOrdered ==
  redis_safe_batch =>
    \A i, j \in Indexes :
      Conflicting(i, j) =>
        /\ \A b \in BlocksHolding(j) : \A l \in LaunchesOf(b) :
             \E r \in ResponsesTo(i) : r < l
        /\ \A a \in SessionAppliesOf(j) :
             \E r \in ResponsesTo(i) : r < a

\* A write and a later read of the same key, both applied to sessions, the
\* write answered by its flush callback.
ConflictingOpsWitness ==
  /\ redis_safe_batch
  /\ \E i, j \in Indexes :
       /\ Conflicting(i, j)
       /\ SessionAppliesOf(j) # {}
       /\ \E r \in ResponsesTo(i) : log[r].type = "RespondSuccess"

(***************************************************************************)
(* C4                                                                      *)
(***************************************************************************)
\* Positions where a flush is issued for Block b.
FlushesOf(b) == {p \in Positions("FlushAsync") : log[p].block = b}

\* Positions where an operation is applied to the session of Block b.
AppliesIn(b) == {p \in Positions("SessionApply") : log[p].block = b}

\* C4 as stated: a successor S of a Block B is never launched until the flush
\* completion callback of B has been invoked.
SuccessorWaitsForCallback ==
  \A b \in DOMAIN blocks :
    blocks[b].next # NoBlock =>
      \A l \in LaunchesOf(blocks[b].next) : \E d \in DonesOf(b) : d < l

\* C4, amended: a successor S of a Block B is launched by B only and after B
\* was launched: from B's flush completion callback (flush succeeded or
\* failed), or, when the apply of every operation of B failed and no flush
\* was issued for B, directly from B's Launch.
SuccessorWaitsForPredecessor ==
  \A b \in DOMAIN blocks :
    blocks[b].next # NoBlock =>
      \A l \in LaunchesOf(blocks[b].next) :
        /\ log[l].data = b
        /\ \E lb \in LaunchesOf(b) : lb < l
        /\ \/ \E d \in DonesOf(b) : d < l
           \/ /\ FlushesOf(b) = {}
              /\ DonesOf(b) = {}
              /\ Cardinality(AppliesIn(b)) = Len(blocks[b].ops)
              /\ \A a \in AppliesIn(b) : a < l /\ ~log[a].ok

\* A successor launched after the failed flush of its predecessor.
SuccessorAfterFailedFlushWitness ==
  \E b \in DOMAIN blocks :
    /\ blocks[b].next # NoBlock
    /\ \E l \in LaunchesOf(blocks[b].next), d \in DonesOf(b) : d < l /\ ~log[d].ok

(***************************************************************************)
(* C5                                                                      *)
(***************************************************************************)
\* The batch indexes given to BatchContext::Apply with the given kind, in
\* arrival order.
AppliedOfKind(read) ==
  LET applied == SelectSeq(log, LAMBDA e : e.type = "Apply" /\ e.ok = read)
  IN  [k \in DOMAIN applied |-> applied[k].index]

\* The batch indexes of the operations of Block b, in ops_ order.
BlockIndexes(b) == [k \in DOMAIN blocks[b].ops |-> blocks[b].ops[k].index]

\* The Blocks whose first operation has the given kind.
BlocksOfKind(read) ==
  {b \in DOMAIN blocks : blocks[b].ops # <<>> /\ blocks[b].ops[1].read = read}

NoConflictDetected == Positions("ConflictFound") = {}

\* C5: when no conflict was detected during the batch, then at Commit
\* flush_head is absent, there is at most one READ Block and at most one
\* WRITE Block, each holds all operations of its kind in arrival order and
\* has no successor, and Commit itself launches each of them once (the read
\* Block by the time the write Block is considered, both by its end), never
\* from a flush completion.
NoConflictParallelLaunch ==
  (NoConflictDetected /\ pc \in {"loop", "commit_write", "returned"} /\ idx = Len(batch)) =>
    /\ ctx.flush_head = NoBlock
    /\ \A read \in BOOLEAN :
         /\ Cardinality(BlocksOfKind(read)) <= 1
         /\ AppliedOfKind(read) # <<>> => BlocksOfKind(read) = {data(ctx, read).block}
         /\ \A b \in BlocksOfKind(read) :
              /\ BlockIndexes(b) = AppliedOfKind(read)
              /\ \A k \in DOMAIN blocks[b].ops : blocks[b].ops[k].read = read
              /\ blocks[b].next = NoBlock
              /\ \A l \in LaunchesOf(b) : log[l].data = NoBlock
              /\ Cardinality(LaunchesOf(b)) =
                   IF pc = "returned" \/ (pc = "commit_write" /\ read) THEN 1 ELSE 0
    /\ DOMAIN blocks = BlocksOfKind(TRUE) \cup BlocksOfKind(FALSE)

\* Two reads and a write without conflict: the read Block (two operations) and
\* the write Block were launched by Commit and both flushes are outstanding
\* together.
ParallelLaunchWitness ==
  /\ NoConflictDetected
  /\ pc = "returned"
  /\ redis_safe_batch
  /\ \E r \in BlocksOfKind(TRUE), w \in BlocksOfKind(FALSE) :
       /\ Len(blocks[r].ops) = 2
       /\ blocks[r].callbacks = 1
       /\ blocks[w].callbacks = 1
       /\ DonesOf(r) = {}
       /\ DonesOf(w) = {}

(***************************************************************************)
(* C6                                                                      *)
(***************************************************************************)
\* C6: with redis_safe_batch off every operation reaches BatchContext::Apply
\* with an empty key list, ConflictFound never runs, last_conflict_was_read
\* stays indeterminate, flush_head stays absent, no Block gets a successor,
\* and Commit launches the read Block and the write Block itself.
UnsafeBatchNeverChains ==
  ~redis_safe_batch =>
    /\ \A p \in Positions("Apply") : log[p].data = <<>>
    /\ NoConflictDetected
    /\ Positions("SetNext") = {}
    /\ ctx.last_conflict_was_read = "indeterminate"
    /\ ctx.flush_head = NoBlock
    /\ \A b \in DOMAIN blocks :
         /\ blocks[b].next = NoBlock
         /\ \A l \in LaunchesOf(b) : log[l].data = NoBlock
         /\ pc = "returned" => Cardinality(LaunchesOf(b)) = 1
    /\ Cardinality(DOMAIN blocks) <= 2

\* Safe batching off, a write and a later read of the same row key: their
\* Blocks were both launched by Commit and both flushes are outstanding.
UnsafeBatchWitness ==
  /\ ~redis_safe_batch
  /\ pc = "returned"
  /\ \E r \in BlocksOfKind(TRUE), w \in BlocksOfKind(FALSE) :
       /\ blocks[r].ops[1].operation = blocks[w].ops[1].operation
       /\ blocks[w].ops[1].index < blocks[r].ops[1].index
       /\ blocks[r].callbacks = 1
       /\ blocks[w].callbacks = 1

(***************************************************************************)
(* C7                                                                      *)
(***************************************************************************)
\* The command is not in the table or violates the arity rule of its entry.
LookupOrArityFails(c) ==
  LET info == FetchHandler(c)
  IN  \/ info = NoCommandInfo
      \/ info.arity < 0 /\ Len(c) < -1 * info.arity
      \/ info.arity > 0 /\ Len(c) # info.arity

\* In the log lg, the parser (or the key extraction) of index i reported an error.
ParseFailedIn(lg, i) ==
  \E p \in DOMAIN lg : lg[p].type = "Parse" /\ lg[p].index = i /\ ~lg[p].ok

\* The command of index i failed lookup, arity check or parsing.
FailedIn(lg, i) == LookupOrArityFails(batch[i + 1]) \/ ParseFailedIn(lg, i)

\* Once the loop is past a failed command, the command has its failure
\* response from the dispatcher, given before any Block was launched, and it
\* never reached the scheduler or a session.
FailedCommandAnsweredInLoop ==
  \A i \in Indexes :
    (i < idx /\ FailedIn(log, i)) =>
      /\ \E r \in ResponsesTo(i) : log[r].type = "RespondFailure"
      /\ \A r \in ResponsesTo(i) :
           /\ log[r].type = "RespondFailure"
           /\ log[r].block = NoBlock
           /\ \A l \in Positions("Launch") : r < l
      /\ \A p \in Positions("Apply") : log[p].index # i
      /\ BlocksHolding(i) = {}
      /\ SessionAppliesOf(i) = {}

\* The loop step of a failed command changes nothing of the scheduler, only
\* adds calls for that index to the log, the last one the failure response,
\* and leaves the handler in the loop at the next index.
FailedCommandStep ==
  (pc = "loop" /\ idx # Len(batch) /\ idx' = idx + 1 /\ FailedIn(log', idx)) =>
    /\ ctx' = ctx
    /\ blocks' = blocks
    /\ pc' = "loop"
    /\ Len(log') > Len(log)
    /\ SubSeq(log', 1, Len(log)) = log
    /\ \A p \in (Len(log) + 1)..Len(log') : log'[p].index = idx
    /\ log'[Len(log')].type = "RespondFailure"

\* C7: a command that fails lookup, arity check or parsing is answered with
\* respond_failure inside the dispatch loop, before Commit; it is never given
\* to BatchContext::Apply and is in no Block; its loop step leaves the
\* scheduler state unchanged; and the loop goes on: Handle reaches Commit
\* only with every command dispatched.
FailedCommandsBypassScheduler ==
  /\ [](FailedCommandAnsweredInLoop
        /\ ((pc \in {"commit_write", "returned"} /\ yb_client_initialized)
              => idx = Len(batch)))
  /\ [][FailedCommandStep]_vars

\* An arity failure and a parse failure earlier in the batch, and a later
\* operation that was applied to a session.
FailedCommandsWitness ==
  \E i, j, k \in Indexes :
    /\ i < k /\ j < k
    /\ LookupOrArityFails(batch[i + 1])
    /\ ParseFailedIn(log, j)
    /\ SessionAppliesOf(k) # {}
    /\ ResponsesTo(k) # {}

(***************************************************************************)
(* C8                                                                      *)
(***************************************************************************)
\* An ECHO command that passes the arity check.
IsEcho(c) == Len(c) = 2 /\ ToLower(c[1]) = "echo"

\* Once the loop is past an ECHO command, its only response is the success
\* carrying its second token, given by the dispatcher, and no Operation of
\* that index exists anywhere.
EchoAnsweredInLoop ==
  \A i \in Indexes :
    (i < idx /\ IsEcho(batch[i + 1])) =>
      /\ ResponsesTo(i) # {}
      /\ \A r \in ResponsesTo(i) :
           /\ log[r].type = "RespondSuccess"
           /\ log[r].block = NoBlock
           /\ log[r].data.string_response = batch[i + 1][2]
      /\ Cardinality(ResponsesTo(i)) = 1
      /\ \A p \in DOMAIN log : log[p].index = i => IsResponse(log[p])
      /\ BlocksHolding(i) = {}

\* The loop step of an ECHO command only adds that response to the log.
EchoStep ==
  (pc = "loop" /\ idx # Len(batch) /\ idx' = idx + 1 /\ IsEcho(batch[idx + 1])) =>
    /\ ctx' = ctx
    /\ blocks' = blocks
    /\ Len(log') = Len(log) + 1
    /\ SubSeq(log', 1, Len(log)) = log
    /\ log'[Len(log')].type = "RespondSuccess"
    /\ log'[Len(log')].index = idx
    /\ log'[Len(log')].data.string_response = batch[idx + 1][2]

\* C8: an ECHO command that passes the arity check is answered in the
\* dispatch loop with respond_success whose string_response is the command's
\* second token; it creates no Operation and no Block and leaves the
\* scheduler state unchanged; a batch of ECHO commands only launches no Block.
EchoNeverReachesScheduler ==
  /\ [](EchoAnsweredInLoop
        /\ ((\A i \in Indexes : IsEcho(batch[i + 1]))
              => (blocks = <<>> /\ ctx = NewBatchContext /\ Positions("Launch") = {})))
  /\ [][EchoStep]_vars

\* A batch of ECHO commands only, handled to the end: every index answered
\* with "hello", no Block.
EchoOnlyWitness ==
  /\ pc = "returned"
  /\ Len(batch) = MaxBatch
  /\ \A i \in Indexes :
       /\ IsEcho(batch[i + 1])
       /\ \E r \in ResponsesTo(i) :
            log[r].type = "RespondSuccess" /\ log[r].data.string_response = "hello"
  /\ blocks = <<>>

(***************************************************************************)
(* C9                                                                      *)
(***************************************************************************)
\* C9: when the flush of a Block completes with a failure status, every
\* operation of the Block is answered with respond_failure carrying that
\* status and none with success; when it completes with success, every
\* operation is answered, at its own index, with respond_success carrying
\* its own response.
FlushStatusAnswersEveryOp ==
  \A d \in Positions("Done") :
    LET b == log[d].block
        ops == blocks[b].ops
        status == log[d].data
    IN  /\ d + Len(ops) <= Len(log)
        /\ \A k \in DOMAIN ops :
             LET e == log[d + k]
             IN  /\ e.block = b
                 /\ e.index = ops[k].index
                 /\ IF status.code = "OK"
                      THEN /\ e.type = "RespondSuccess"
                           /\ e.data.of_op = ops[k].index
                      ELSE /\ e.type = "RespondFailure"
                           /\ e.data = status
        /\ status.code # "OK" =>
             \A k \in DOMAIN ops : \A r \in ResponsesTo(ops[k].index) :
               log[r].type = "RespondFailure"

\* The flush of a Block of two operations failed and the flush of another
\* Block succeeded.
FlushStatusWitness ==
  \E d1, d2 \in Positions("Done") :
    /\ log[d1].data.code # "OK"
    /\ Len(blocks[log[d1].block].ops) = 2
    /\ log[d2].data.code = "OK"

(***************************************************************************)
(* C10                                                                     *)
(***************************************************************************)
\* The batch indexes applied to the session of Block b, in the order of the
\* applies.
AppliedIn(b) ==
  LET applied == SelectSeq(log, LAMBDA e : e.type = "SessionApply" /\ e.block = b)
  IN  [k \in DOMAIN applied |-> applied[k].index]

\* C10: a launched Block has applied every one of its operations, in order,
\* whether or not earlier applies failed; if at least one apply succeeded it
\* has issued exactly one flush, after the applies, and its successor waits
\* for the callback; if every apply failed it has issued no flush and has
\* launched its successor, if there is one, itself.
LaunchFlushesOnceOrPassesOn ==
  \A b \in DOMAIN blocks :
    LaunchesOf(b) # {} =>
      LET has_ok == \E a \in AppliesIn(b) : log[a].ok
          next == blocks[b].next
      IN  /\ AppliedIn(b) = BlockIndexes(b)
          /\ \A a \in AppliesIn(b) :
               ~log[a].ok => log[a + 1] = RespondFailure(b, log[a].index, ApplyFailed)
          /\ has_ok =>
               /\ Cardinality(FlushesOf(b)) = 1
               /\ \A f \in FlushesOf(b) : \A a \in AppliesIn(b) : a < f
               /\ next # NoBlock =>
                    \A ln \in LaunchesOf(next) : \E d \in DonesOf(b) : d < ln
          /\ ~has_ok =>
               /\ FlushesOf(b) = {}
               /\ DonesOf(b) = {}
               /\ blocks[b].callbacks = 0
               /\ next # NoBlock =>
                    \E ln \in LaunchesOf(next) : log[ln].data = b

\* A Block whose only apply failed, so that it issued no flush and launched
\* its successor; in the successor the first apply failed, the second
\* succeeded and one flush was issued.
LaunchWitness ==
  \E b \in DOMAIN blocks :
    LET next == blocks[b].next
    IN  /\ next # NoBlock
        /\ LaunchesOf(b) # {}
        /\ FlushesOf(b) = {}
        /\ LaunchesOf(next) # {}
        /\ Len(blocks[next].ops) = 2
        /\ \E a1, a2 \in AppliesIn(next) : a1 < a2 /\ ~log[a1].ok /\ log[a2].ok
        /\ Cardinality(FlushesOf(next)) = 1

(***************************************************************************)
(* C11                                                                     *)
(***************************************************************************)
\* Positions where SetUpYBClient returned a failure to Handle.
SetUpFailures == {p \in Positions("SetUpYBClient") : ~log[p].ok}

\* The message Handle builds from the status SetUpYBClient returned.
InitializationError(status) == "Could not open .redis table. " \o status

\* C11: when SetUpYBClient fails at the start of Handle, every index of the
\* batch has exactly one respond_failure carrying the initialization error,
\* nothing else ever happens in the call (no parse, no Apply, no Block, no
\* Launch, the loop is not entered, the BatchContext is untouched) and
\* yb_client_initialized stays false.
FailedSetUpFailsEveryIndex ==
  \A p \in SetUpFailures :
    /\ pc = "returned"
    /\ idx = 0
    /\ ~yb_client_initialized
    /\ blocks = <<>>
    /\ ctx = NewBatchContext
    /\ Len(log) = 1 + Len(batch)
    /\ \A i \in Indexes :
         log[p + 1 + i] =
           RespondFailure(NoBlock, i,
                          FormatFailure(batch[i + 1][1], InitializationError(log[p].data)))

\* The set-up failed for a full batch and every index has its failure.
FailedSetUpWitness ==
  /\ SetUpFailures # {}
  /\ Len(batch) = MaxBatch
  /\ \A i \in Indexes : Cardinality(ResponsesTo(i)) = 1

(***************************************************************************)
(* C12                                                                     *)
(***************************************************************************)
\* Positions where BatchContext::Apply was given batch index i.
ApplyCallsOf(i) == {p \in Positions("Apply") : log[p].index = i}

\* The first n commands of the batch all became operations, of alternating
\* kinds and all with the same single key.
AlternatingOnOneKey(n) ==
  /\ n <= idx
  /\ \A i \in 0..(n - 1) : Cardinality(ApplyCallsOf(i)) = 1
  /\ \E k \in Keys : \A i \in 0..(n - 1) : KeysGiven(i) = {k}
  /\ \A i \in 0..(n - 2) :
       \A p \in ApplyCallsOf(i), q \in ApplyCallsOf(i + 1) : log[p].ok # log[q].ok

\* C12: with safe batching on, once the n >= 2 commands of a batch have been
\* handed to the scheduler as operations of alternating kinds on one key,
\* there are exactly n Blocks of one operation each, the Block of operation 0
\* is flush_head and the Block of operation k + 1 is the successor of the
\* Block of operation k; the last Block has no successor.
AlternatingBatchIsOneChain ==
  LET n == Len(batch)
  IN  (redis_safe_batch /\ n >= 2 /\ AlternatingOnOneKey(n)) =>
        /\ Len(blocks) = n
        /\ \A i \in 0..(n - 1) :
             /\ BlocksHolding(i) = {i + 1}
             /\ Len(blocks[i + 1].ops) = 1
             /\ blocks[i + 1].next = IF i + 1 < n THEN i + 2 ELSE NoBlock
        /\ ctx.flush_head = 1

\* R, W, R, W on one key: a chain of four Blocks, all launched and answered.
AlternatingChainWitness ==
  /\ redis_safe_batch
  /\ Len(batch) = 4
  /\ batch[1][1] = "get"
  /\ AlternatingOnOneKey(4)
  /\ Len(blocks) = 4
  /\ \A b \in DOMAIN blocks : DonesOf(b) # {}

(***************************************************************************)
(* C13                                                                     *)
(***************************************************************************)
\* C13: over all concurrent and successive Handle calls, at most one client
\* object is ever built into client_, and every call that found the client
\* initialized and built its BatchContext saw the client and the table that
\* are still in place (nothing wrote them afterwards).
ClientBuiltOnceThenReadOnly ==
  /\ client_ <= 1
  /\ \A t \in Threads :
       handlers[t].client # NoClient =>
         /\ handlers[t].client = client_
         /\ handlers[t].table = table_

(***************************************************************************)
(* C14                                                                     *)
(***************************************************************************)
\* C14: the status of every failure response given to an index has a message
\* of the form "<command name>: <error text>", the prefix being the first
\* token of the command at that index.
FailureCarriesCommandName ==
  \A p \in Positions("RespondFailure") :
    LET message == log[p].data.message
    IN  /\ Len(message) = 3
        /\ message[1] = batch[log[p].index + 1][1]
        /\ message[2] = ": "

(***************************************************************************)
(* C15                                                                     *)
(***************************************************************************)
\* The failures the dispatch loop itself answers with.
DispatchErrors ==
  {"Unsupported call.", "Too few arguments.", "Wrong number of arguments."}

\* The handler of the command at index i was invoked: a read or write handler
\* has run its parser, the echo handler has answered with the echoed token.
HandlerInvoked(i) ==
  \/ \E p \in Positions("Parse") : log[p].index = i
  \/ \E p \in Positions("RespondSuccess") :
       /\ log[p].index = i
       /\ log[p].block = NoBlock

\* What the dispatch loop did with the command at index i.
DispatchOutcomes(i) ==
  {error \in DispatchErrors :
     \E p \in Positions("RespondFailure") :
       log[p] = RespondFailure(NoBlock, i, FormatFailure(batch[i + 1][1], error))}
  \cup (IF HandlerInvoked(i) THEN {"handler"} ELSE {})

\* C15: a command the loop has dealt with had exactly one outcome: with its
\* lower-cased name in the table with arity a and n tokens, the failure
\* "Wrong number of arguments." if a > 0 and n # a, the failure "Too few
\* arguments." if a < 0 and n < |a|, its handler otherwise; with its name not
\* in the table, the failure "Unsupported call.".
ArityDecidesDispatch ==
  \A i \in Indexes :
    (i < idx) =>
      LET c == batch[i + 1]
          n == Len(c)
          entries == {info \in REDIS_COMMANDS : info.name = ToLower(c[1])}
      IN  IF entries = {}
            THEN DispatchOutcomes(i) = {"Unsupported call."}
            ELSE \A info \in entries :
                   DispatchOutcomes(i) =
                     IF info.arity > 0 /\ n # info.arity
                       THEN {"Wrong number of arguments."}
                     ELSE IF info.arity < 0 /\ n < -info.arity
                       THEN {"Too few arguments."}
                       ELSE {"handler"}

\* A command named in upper case, of negative arity, with too few tokens has
\* been answered.
TooFewArgumentsWitness ==
  /\ idx = 1
  /\ batch[1][1] = "SET"
  /\ Len(batch[1]) = 2
  /\ DispatchOutcomes(0) = {"Too few arguments."}

(***************************************************************************)
(* C16                                                                     *)
(***************************************************************************)
\* Positions of the ConflictFound calls that found last_conflict_was_read_
\* indeterminate: the first conflict of the batch.
FirstConflicts ==
  {p \in Positions("ConflictFound") : log[p].data = "indeterminate"}

\* The position where the Apply that ran into the conflict at position p
\* placed its operation.
ArrivingApply(p) ==
  CHOOSE q \in Positions("Apply") :
    /\ q > p
    /\ \A x \in Positions("Apply") : x > p => q <= x

\* Positions of the Apply calls before position p for operations of the
\* given kind.
PlacedBefore(p, read) ==
  {a \in Positions("Apply") : a < p /\ log[a].ok = read}

\* C16: after the first conflict of a batch, flush_head is the Block that
\* holds the operations of the opposite kind placed before it; its direct
\* successor is the Block the arriving operation was appended to, which also
\* holds, before the arriving operation, every operation of the arriving
\* kind placed earlier; every operation is in the Block it was placed in and
\* in no other.
FirstConflictSeedsChain ==
  \A p \in FirstConflicts :
    LET q == ArrivingApply(p)
        read == log[p].ok
        B == log[q].block
        head == ctx.flush_head
        earlier == SelectSeq(AppliedOfKind(read), LAMBDA i : i < log[q].index)
    IN  /\ log[q].ok = read
        /\ PlacedBefore(p, ~read) # {}
        /\ head # NoBlock
        /\ \A a \in PlacedBefore(p, ~read) : log[a].block = head
        /\ blocks[head].next = B
        /\ \A a \in PlacedBefore(p, read) : log[a].block = B
        /\ log[p].block = (IF PlacedBefore(p, read) = {} THEN NoBlock ELSE B)
        /\ Len(BlockIndexes(B)) > Len(earlier)
        /\ SubSeq(BlockIndexes(B), 1, Len(earlier) + 1) = Append(earlier, log[q].index)
        /\ \A a \in Positions("Apply") : BlocksHolding(log[a].index) = {log[a].block}

\* GET k1, SET k2, GET k2: the write Block {SET k2} is flush_head and the read
\* Block {GET k1, GET k2} is its successor.
FirstConflictWitness ==
  /\ Len(batch) = 3
  /\ idx = 3
  /\ KeysGiven(0) = {"k1"}
  /\ KeysGiven(1) = {"k2"}
  /\ KeysGiven(2) = {"k2"}
  /\ FirstConflicts # {}
  /\ Len(blocks) = 2
  /\ \E r, w \in DOMAIN blocks :
       /\ BlockIndexes(r) = <<0, 2>>
       /\ BlockIndexes(w) = <<1>>
       /\ blocks[r].ops[1].read
       /\ ctx.flush_head = w
       /\ blocks[w].next = r

(***************************************************************************)
(* C17                                                                     *)
(***************************************************************************)
\* Positions of the SetNext calls made by Apply: those that install a Block
\* in which no operation had been placed yet.
AttachPositions ==
  {p \in Positions("SetNext") :
     /\ log[p].data.next # NoBlock
     /\ \A a \in Positions("Apply") : a < p => log[a].block # log[p].data.next}

\* C17: whenever Apply attaches a Block it has just created, the SetNext is
\* called on an existing Block, of the opposite kind, that had no successor:
\* SetNext returns null and the "Opposite already had next block" branch is
\* not taken.
NewBlockAttachesToFreeOpposite ==
  \A p \in AttachPositions :
    /\ log[p].block \in DOMAIN blocks
    /\ log[p].ok
    /\ log[p].data.old = NoBlock
    /\ blocks[log[p].block].ops # <<>>
    /\ \A a \in Positions("Apply") :
         log[a].block = log[p].data.next =>
           blocks[log[p].block].ops[1].read # log[a].ok

\* Apply has attached a new Block twice in one batch, the second time to the
\* Block it attached the first time.
AttachWitness ==
  \E p, q \in AttachPositions :
    /\ p < q
    /\ log[q].block = log[p].data.next
    /\ Positions("Apply") # {}
    /\ idx = Len(batch)

(***************************************************************************)
(* C18                                                                     *)
(***************************************************************************)
\* While no conflict has been seen there is no chain: no flush_head and no
\* Block with a successor; after a conflict there is a flush_head.
HeadFollowsLastConflict ==
  IF ctx.last_conflict_was_read = "indeterminate"
    THEN /\ ctx.flush_head = NoBlock
         /\ \A b \in DOMAIN blocks : blocks[b].next = NoBlock
    ELSE ctx.flush_head \in DOMAIN blocks

\* Once last_conflict_was_read_ holds true or false it does not become
\* indeterminate again and flush_head_ keeps its value.
HeadStaysStep ==
  ctx.last_conflict_was_read # "indeterminate" =>
    /\ ctx'.last_conflict_was_read # "indeterminate"
    /\ ctx'.flush_head = ctx.flush_head

\* C18: in every state of the BatchContext, an indeterminate
\* last_conflict_was_read_ means that flush_head_ is null and no Block has a
\* successor; once last_conflict_was_read_ is true or false it never becomes
\* indeterminate again, flush_head_ is a Block and never changes.
ChainHeadIsSetOnce ==
  /\ []HeadFollowsLastConflict
  /\ [][HeadStaysStep]_vars

\* After two conflicts of different kinds, in a finished call, flush_head is
\* still the Block of the first operation.
ChainHeadWitness ==
  /\ Cardinality(Positions("ConflictFound")) >= 2
  /\ \E p, q \in Positions("ConflictFound") : log[p].ok # log[q].ok
  /\ ctx.flush_head = 1
  /\ Len(blocks) = 3
  /\ pc = "returned"

(***************************************************************************)
(* C19                                                                     *)
(***************************************************************************)
\* The keys of all operations of the given kind given to Apply so far.
KeysOfKind(read) ==
  UNION {KeysGiven(log[p].index) : p \in {q \in Positions("Apply") : log[q].ok = read}}

\* The keys of the operations placed in Block b.
KeysIn(b) ==
  IF b = NoBlock THEN {}
  ELSE UNION {KeysGiven(blocks[b].ops[k].index) : k \in DOMAIN blocks[b].ops}

\* C19 as stated: the used-key set of each kind is never pruned, it holds the
\* keys of all operations of that kind applied so far.
UsedKeysAccumulate ==
  \A read \in BOOLEAN : data(ctx, read).used_keys = KeysOfKind(read)

\* The used-key set of each kind holds the keys of the operations in the open
\* Block of that kind.
UsedKeysOfOpenBlock ==
  \A read \in BOOLEAN : data(ctx, read).used_keys = KeysIn(data(ctx, read).block)

\* A step that takes a key out of a kind's used-key set is a step in which
\* ConflictFound ran for that kind with last_conflict_was_read_ already true
\* or false.
UsedKeysStep ==
  \A read \in BOOLEAN :
    \/ data(ctx, read).used_keys \subseteq data(ctx', read).used_keys
    \/ \E p \in (Len(log) + 1)..Len(log') :
         /\ log'[p].type = "ConflictFound"
         /\ log'[p].ok = read
         /\ log'[p].data # "indeterminate"

\* C19: every Apply inserts the keys of its operation into the used-key set
\* of the operation's kind; the only code that removes keys is ConflictFound
\* at a conflict after the first, which empties the set of the arriving kind
\* together with dropping that kind's open Block; so each kind's used-key set
\* is the set of keys of the operations in that kind's open Block.
UsedKeysFollowOpenBlock ==
  /\ []UsedKeysOfOpenBlock
  /\ [][UsedKeysStep]_vars

\* R k1, W k2, R k2, W k1: the second conflict emptied the write keys, which
\* now hold k1 only although writes on k1 and k2 were applied.
UsedKeysPrunedWitness ==
  /\ idx = 4
  /\ KeysOfKind(FALSE) = Keys
  /\ ctx.write_data.used_keys # Keys
  /\ ctx.write_data.used_keys # {}
  /\ ctx.read_data.used_keys = Keys

(***************************************************************************)
(* C20                                                                     *)
(***************************************************************************)
\* No Block is launched twice or before Commit, and a Block is launched by
\* Commit or by the Block it is the successor of.
LaunchedAtMostOnce ==
  \A b \in DOMAIN blocks :
    /\ Cardinality(LaunchesOf(b)) <= 1
    /\ blocks[b].launches = Cardinality(LaunchesOf(b))
    /\ \A l \in LaunchesOf(b) :
         /\ idx = Len(batch)
         /\ pc \in {"commit_write", "returned"}
         /\ \A a \in Positions("Apply") : a < l
         /\ \/ log[l].data = NoBlock
            \/ /\ log[l].data \in DOMAIN blocks
               /\ blocks[log[l].data].next = b

\* Handle has returned and every Block that was created has been launched.
AllBlocksLaunched ==
  /\ pc = "returned"
  /\ \A b \in DOMAIN blocks : Cardinality(LaunchesOf(b)) = 1

\* C20: no Block is launched twice, none before Commit, each by Commit or by
\* its predecessor; and when every issued flush completes, every Block created
\* by Apply ends up launched, whatever the statuses of the applies and of the
\* flushes of the Blocks before it.
EveryBlockLaunchedOnce ==
  /\ []LaunchedAtMostOnce
  /\ <>[]AllBlocksLaunched

\* A chain of three Blocks: every apply of the first failed, the flush of the
\* second failed, and the third has been launched.
ChainLaunchedWitness ==
  /\ Len(blocks) = 3
  /\ AllBlocksLaunched
  /\ \E b1 \in DOMAIN blocks :
       LET b2 == blocks[b1].next
       IN  /\ b1 = ctx.flush_head
           /\ b2 # NoBlock
           /\ blocks[b2].next # NoBlock
           /\ FlushesOf(b1) = {}
           /\ \E d \in DonesOf(b2) : ~log[d].ok
           /\ LaunchesOf(blocks[b2].next) # {}

(***************************************************************************)
(* C21                                                                     *)
(***************************************************************************)
\* The kind of the session Block b was launched with:
\* client->NewSession(ops_.front().read()).
SessionKinds(b) == {log[a].data : a \in AppliesIn(b)}

\* C21: every Block holds at least one operation once the Apply that created
\* it has returned, all operations of a Block have the kind of the first
\* one, and every operation is applied to a session of its own kind.
BlockHoldsOneKind ==
  \A b \in DOMAIN blocks :
    LET ops == blocks[b].ops
    IN  /\ ops # <<>>
        /\ \A k \in DOMAIN ops : ops[k].read = ops[1].read
        /\ \A a \in AppliesIn(b) :
             \A p \in ApplyCallsOf(log[a].index) : log[a].data = log[p].ok

\* A read Block of two operations and a write Block, both launched, in a
\* batch with a conflict.
OneKindWitness ==
  /\ Positions("ConflictFound") # {}
  /\ \E r, w \in DOMAIN blocks :
       /\ Len(blocks[r].ops) = 2
       /\ SessionKinds(r) = {TRUE}
       /\ SessionKinds(w) = {FALSE}
       /\ Cardinality(AppliesIn(r)) = 2

(***************************************************************************)
(* C22                                                                     *)
(***************************************************************************)
\* Block c is a later link than Block b of the chain of successors of b.
RECURSIVE LaterLink(_, _, _)
LaterLink(b, c, fuel) ==
  /\ fuel > 0
  /\ blocks[b].next # NoBlock
  /\ \/ blocks[b].next = c
     \/ LaterLink(blocks[b].next, c, fuel - 1)

\* Batch indexes i < j whose operations were given to Apply with one kind.
SameKind(i, j) ==
  /\ i < j
  /\ \E p \in ApplyCallsOf(i), q \in ApplyCallsOf(j) : log[p].ok = log[q].ok

\* C22: for operations i < j of one kind, j is not applied to a session
\* before i: they are in one Block with i earlier in ops_, or the Block of j
\* is a later link of the chain from the Block of i and is launched only
\* after every operation of the Block of i has its response.
SameKindAppliedInBatchOrder ==
  \A i, j \in Indexes :
    SameKind(i, j) =>
      /\ \A aj \in SessionAppliesOf(j) : \E ai \in SessionAppliesOf(i) : ai < aj
      /\ \A bi \in BlocksHolding(i), bj \in BlocksHolding(j) :
           IF bi = bj
             THEN \A k, l \in DOMAIN blocks[bi].ops :
                    k < l => blocks[bi].ops[k].index < blocks[bi].ops[l].index
             ELSE /\ LaterLink(bi, bj, Len(blocks))
                  /\ \A lj \in LaunchesOf(bj) :
                       \A k \in DOMAIN blocks[bi].ops :
                         \E r \in ResponsesTo(blocks[bi].ops[k].index) : r < lj

\* Two writes in different Blocks of a chain with a read Block between them,
\* both applied to their sessions.
SameKindChainWitness ==
  \E i, j \in Indexes :
    /\ SameKind(i, j)
    /\ BlocksHolding(i) # BlocksHolding(j)
    /\ SessionAppliesOf(i) # {}
    /\ SessionAppliesOf(j) # {}
    /\ \A p \in ApplyCallsOf(i) : ~log[p].ok

====
